---- MODULE Spec2Model ----
(***************************************************************************)
(* Model of bin/process_manifest.py: the manifest download driver          *)
(* (download_manifest), the endpoint selector (get_prioritized_endpoint),  *)
(* the two transfer sources (urllib stream / boto S3 key) and the MD5      *)
(* gate (checksum_matches).                                                *)
(*                                                                         *)
(* Strings are sequences of one-character strings so that split, lstrip,   *)
(* startswith and lower are computed as Python computes them.  File        *)
(* contents are sequences of bytes drawn from 1..2.                        *)
(***************************************************************************)
EXTENDS Integers, Sequences, FiniteSets, TLC

\* ------------------------------------------------------------------ bounds
\* Largest object size served by a source (bytes).
MaxSize == 4
\* The block size of the copy loop (line 59: 8192), scaled so that a source of
\* MaxSize bytes needs more than one block.
block_sz == 3
\* Number of driver runs over the same manifest and destination.
MaxRuns == 2

\* Interruptions of the driver process.
MaxKills == 2

\* ------------------------------------------------------- string primitives
Min(a, b) == IF a < b THEN a ELSE b

\* s[i:] of Python, i 0-based.
Drop(s, i) == SubSeq(s, i + 1, Len(s))

\* s[:i] of Python.
Take(s, i) == SubSeq(s, 1, Min(i, Len(s)))

\* str.startswith
StartsWith(s, p) == Len(p) <= Len(s) /\ SubSeq(s, 1, Len(p)) = p

\* The index (1-based) of the first occurrence of the character c in s, 0 if none.
RECURSIVE FindFrom(_, _, _)
FindFrom(s, c, i) ==
    IF i > Len(s) THEN 0
    ELSE IF s[i] = c THEN i
    ELSE FindFrom(s, c, i + 1)

\* str.split(c): the pieces between the occurrences of c ("" gives [""]).
RECURSIVE Split(_, _)
Split(s, c) ==
    LET i == FindFrom(s, c, 1)
    IN  IF i = 0 THEN << s >>
        ELSE << SubSeq(s, 1, i - 1) >> \o Split(Drop(s, i), c)

\* str.split(c, 1): at most one cut.
Split1(s, c) ==
    LET i == FindFrom(s, c, 1)
    IN  IF i = 0 THEN << s >> ELSE << SubSeq(s, 1, i - 1), Drop(s, i) >>

\* sep.join(parts)
RECURSIVE Join(_, _)
Join(parts, sep) ==
    IF Len(parts) = 0 THEN << >>
    ELSE IF Len(parts) = 1 THEN parts[1]
    ELSE parts[1] \o sep \o Join(Tail(parts), sep)

\* str.lstrip(chars): drops every leading character that is in the set chars.
RECURSIVE LStrip(_, _)
LStrip(s, chars) ==
    IF Len(s) > 0 /\ s[1] \in chars THEN LStrip(Tail(s), chars) ELSE s

\* str.lower on the letters the priority tags and URLs use.
LowerChar(c) ==
    CASE c = "S" -> "s"
      [] c = "H" -> "h"
      [] c = "T" -> "t"
      [] c = "P" -> "p"
      [] c = "F" -> "f"
      [] c = "A" -> "a"
      [] c = "D" -> "d"
      [] c = "E" -> "e"
      [] c = "M" -> "m"
      [] c = "O" -> "o"
      [] OTHER -> c

Lower(s) == [i \in 1..Len(s) |-> LowerChar(s[i])]

\* sub in s
Contains(s, sub) ==
    \E i \in 0..(Len(s) - Len(sub)) : SubSeq(s, i + 1, i + Len(sub)) = sub

\* parts[-n:] of Python.
LastN(parts, n) ==
    IF Len(parts) <= n THEN parts ELSE SubSeq(parts, Len(parts) - n + 1, Len(parts))

\* ------------------------------------------------------------ string data
S3Tag == << "S", "3" >>
HTTPTag == << "H", "T", "T", "P" >>
FTPTag == << "F", "T", "P" >>
FASPTag == << "F", "A", "S", "P" >>
Comma == << "," >>
Slash == << "/" >>
EmptyStr == << >>

s3Scheme == << "s", "3", ":", "/", "/" >>
httpScheme == << "h", "t", "t", "p", ":", "/", "/" >>
ftpScheme == << "f", "t", "p", ":", "/", "/" >>
faspScheme == << "f", "a", "s", "p", ":", "/", "/" >>

\* The candidate URLs of the modelled world.
UrlHttpF == httpScheme \o << "c", "/", "f" >>           \* http://c/f
UrlHttpG == httpScheme \o << "d", "/", "g" >>           \* http://d/g
UrlS3F == s3Scheme \o << "b", "/", "f" >>               \* s3://b/f
UrlS3SB == s3Scheme \o << "s", "b", "/", "g" >>         \* s3://sb/g
UrlFtpF == ftpScheme \o << "x", "/", "f" >>             \* ftp://x/f
UrlFaspF == faspScheme \o << "a", "/", "f" >>           \* fasp://a/f
\* s3://b/HMDEMO/x/y/z/f : the legacy bucket layout
UrlS3Demo == s3Scheme \o << "b", "/", "H", "M", "D", "E", "M", "O", "/",
                            "x", "/", "y", "/", "z", "/", "f" >>


\* --------------------------------------------------------- endpoint selector
\* The default orderings exchanged.
DefaultEpsSwapped(has_md) ==
    IF has_md THEN << HTTPTag, FTPTag, S3Tag, FASPTag >>
    ELSE << S3Tag, HTTPTag, FTPTag, FASPTag >>

\* Lines 163-168: the default ordering, by whether instance metadata was found.
DefaultEps(has_md) ==
    IF has_md THEN << S3Tag, HTTPTag, FTPTag, FASPTag >>
    ELSE << HTTPTag, FTPTag, S3Tag, FASPTag >>

\* Lines 156-168: the priority tags in force.
EffectiveEps(prio, has_md) ==
    LET eps == Split(prio, ",")
    IN  IF eps[1] = EmptyStr THEN DefaultEps(has_md) ELSE eps

\* Lines 176-178: one pass over the candidates for one tag; every match
\* overwrites chosen_url (the inner loop has no break).
RECURSIVE ScanUrls(_, _, _)
ScanUrls(urls, ep, chosen_url) ==
    IF Len(urls) = 0 THEN chosen_url
    ELSE ScanUrls(Tail(urls), ep,
                  IF StartsWith(Head(urls), Lower(ep)) THEN Head(urls) ELSE chosen_url)

\* Lines 172-178: the tags in order, stopping once a URL has been chosen.
RECURSIVE ScanEps(_, _, _)
ScanEps(eps, urls, chosen_url) ==
    IF Len(eps) = 0 \/ chosen_url # EmptyStr THEN chosen_url
    ELSE ScanEps(Tail(eps), urls, ScanUrls(urls, Head(eps), chosen_url))

\* Lines 181-183: the legacy HMDEMO bucket layout is rewritten.
DemoRewrite(chosen_url) ==
    IF Contains(chosen_url, s3Scheme)
       /\ Contains(chosen_url, << "H", "M", "D", "E", "M", "O" >>)
    THEN LET elements == Split(chosen_url, "/")
         IN  s3Scheme \o elements[3] \o << "/", "D", "E", "M", "O", "/" >>
                 \o elements[5] \o Slash \o Join(LastN(elements, 4), Slash)
    ELSE chosen_url

\* Falls back to the first candidate when no tag matches.
get_prioritized_endpoint_fallback(manifest_urls, prio, has_md) ==
    LET chosen_url ==
            DemoRewrite(ScanEps(EffectiveEps(prio, has_md), Split(manifest_urls, ","), EmptyStr))
    IN  IF chosen_url = EmptyStr THEN Split(manifest_urls, ",")[1] ELSE chosen_url

\* Lines 152-185.
get_prioritized_endpoint(manifest_urls, prio, has_md) ==
    DemoRewrite(ScanEps(EffectiveEps(prio, has_md), Split(manifest_urls, ","), EmptyStr))

\* ------------------------------------------------------------- the sources
\* The bytes of the logical files f and g; every endpoint of a file serves a
\* prefix of them (the whole file, or a truncated copy).
ByteF(i) == IF i % 3 = 2 THEN 2 ELSE 1
BytesF(n) == [i \in 1..n |-> ByteF(i)]
BytesG(n) == [i \in 1..n |-> 2]


\* An endpoint: whether it answers, the size of what it serves, and (for a
\* stream endpoint) whether its response carries a Content-Length header.
Endpoint(up, size, has_len) == [up |-> up, size |-> size, has_len |-> has_len]
Down == Endpoint(FALSE, 0, FALSE)

\* urllib's view of a URL: the endpoint behind it and the bytes it serves.
\* Only http://c/f and http://d/g answer; any other URL cannot be opened.
HttpEndpoint(st, u) ==
    IF u = UrlHttpF THEN st.hf
    ELSE IF u = UrlHttpG THEN st.hg
    ELSE Down

HttpBytes(st, u) ==
    IF u = UrlHttpG THEN BytesG(st.hg.size) ELSE BytesF(HttpEndpoint(st, u).size)

\* Lines 141-145 (s3_get_key): "bucket/key" is cut at the first slash; boto's
\* get_bucket raises for an unknown bucket, get_key returns None for an unknown
\* key.  The only bucket is b and its only key is f.
s3_get_key(st, u) ==
    LET parts == Split1(u, "/")
    IN  IF Len(parts) < 2 THEN "raise"
        ELSE IF parts[1] # << "b" >> THEN "raise"
        ELSE IF parts[2] # << "f" >> \/ ~st.sf.up THEN "none"
        ELSE "key"

\* ------------------------------------------------------------- the digest
\* hashlib.md5 over the file's bytes (lines 194-199), as an injective code of
\* the byte sequence: two files have the same digest iff they are equal.
RECURSIVE hexdigest(_)
hexdigest(bytes) ==
    IF Len(bytes) = 0 THEN 0 ELSE Head(bytes) + 3 * hexdigest(Tail(bytes))

\* Reports a match whatever the digest.
checksum_always(file, original_md5) == TRUE

\* Lines 192-204.
checksum_matches(file, original_md5) == hexdigest(file.data) = original_md5

\* Asks for one byte less than a block.
S3RangeShort(bs, start_pos, max_range) ==
    LET range_end == start_pos + bs - 2
    IN  [kind |-> "get", ranged |-> TRUE, start |-> start_pos,
         closed |-> range_end <= max_range,
         end |-> IF range_end <= max_range THEN range_end ELSE 0]

\* Names an end on every request, also past the object's size.
S3RangeClosed(bs, start_pos, max_range) ==
    [kind |-> "get", ranged |-> TRUE, start |-> start_pos,
     closed |-> TRUE, end |-> start_pos + bs - 1]

\* ------------------------------------------------------------ get_buffer
\* Lines 130-134: the Range header of one S3 block request.
S3Range(bs, start_pos, max_range) ==
    LET range_end == start_pos + bs - 1
    IN  [kind |-> "get", ranged |-> TRUE, start |-> start_pos,
         closed |-> range_end <= max_range, end |-> IF range_end <= max_range THEN range_end ELSE 0]

\* What an S3 object of these bytes returns for a Range header: the bytes from
\* start to end inclusive, cut at the end of the object.
S3Serve(bytes, hdr) ==
    IF hdr.closed THEN SubSeq(bytes, hdr.start + 1, Min(hdr.end + 1, Len(bytes)))
    ELSE Drop(bytes, hdr.start)

\* Hands back one byte less than the stream was advanced by.
get_buffer_short(rs, s3, bs, start_pos, max_range) ==
    IF ~s3 THEN Take(rs.body, bs - 1)
    ELSE IF start_pos >= max_range THEN << >>
    ELSE S3Serve(rs.body, S3Range(bs, start_pos, max_range))

\* Lines 124-135: the block, or the empty sequence for None / b"" (both end
\* the loop at line 65).
get_buffer(rs, s3, bs, start_pos, max_range) ==
    IF ~s3 THEN Take(rs.body, bs)
    ELSE IF start_pos >= max_range THEN << >>
    ELSE S3Serve(rs.body, S3Range(bs, start_pos, max_range))

\* The requests get_buffer sends (none for a stream: it reads the open response).
get_buffer_requests(s3, bs, start_pos, max_range) ==
    IF s3 /\ start_pos < max_range THEN << S3Range(bs, start_pos, max_range) >> ELSE << >>

\* ------------------------------------------------------------ the state
Names == { << "f" >>, << "g" >> }
NoFile == [exists |-> FALSE, data |-> << >>]
File(bytes) == [exists |-> TRUE, data |-> bytes]
NoRes == [body |-> << >>]
NoCall == [called |-> FALSE, urls |-> EmptyStr, url |-> EmptyStr]

VARIABLES
    manifest,       \* the manifest: a sequence of [urls, md5]
    priorities,     \* the priorities string
    md,             \* whether get_instance_metadata finds metadata
    store,          \* the endpoints: hf = http://c/f, hg = http://d/g, sf = s3://b/f
    final,          \* destination files, by basename
    partial,        \* '.partial' files, by basename of their destination
    run,            \* which run of the driver this is
    idx,            \* position of the for loop in the manifest (line 21)
    pc,             \* where download_manifest is
    url,            \* line 23 / 39
    s3_conn,        \* line 36-38: TRUE for a boto connection, FALSE for ""
    file_name,      \* line 31 (the basename; the destination directory is fixed)
    current_byte,   \* line 44-46, 70
    file_size,      \* line 56
    res,            \* line 51: the open response (its unread body) or the S3 key
    outcomes,       \* history: what this run did for each entry so far
    requests,       \* history: the requests sent for the current entry
    chunks,         \* history: the lengths of the blocks get_buffer returned
    start_file,     \* history: the partial file when the current download began
    sel,            \* history: the last call of get_prioritized_endpoint and its result
    final_before,   \* history: the destination files when this run began
    failed          \* history: the (run, entry) pairs that ended checksum-failed, the
                    \* partial file as long as the source

vars == << manifest, priorities, md, store, final, partial, run, idx, pc, url,
           s3_conn, file_name, current_byte, file_size, res, outcomes, requests,
           chunks, start_file, sel, final_before, failed >>

env == << manifest, priorities, md, store >>
locals == << url, s3_conn, file_name, current_byte, file_size, res >>


\* ------------------------------------------------------------ the inputs
\* The manifests of the driver runs have one or two entries.
ManifestLengths == { 1, 2 }

CSV(list) == Join(list, Comma)
Entry(list, md5) == [urls |-> CSV(list), md5 |-> md5]

\* All sequences over S of length lo..hi.
SeqsOf(S, lo, hi) == UNION { [1..n -> S] : n \in lo..hi }

\* What an endpoint of a file of true size e may be: down, the whole file, or
\* a copy that lost its last byte.
CopiesOf(e) ==
    { Down, Endpoint(TRUE, e, TRUE) }
        \cup (IF e > 0 THEN { Endpoint(TRUE, e - 1, TRUE) } ELSE {})

\* A stream endpoint may also answer without a Content-Length header.
StreamCopiesOf(e) == CopiesOf(e) \cup { Endpoint(TRUE, e, FALSE) }

\* The entries of a manifest about a file f of true size e: the md5 recorded
\* for an entry is the file's, or a wrong one.
DriverEntries(e) ==
    { Entry(<< u >>, hexdigest(BytesF(n))) : u \in { UrlHttpF, UrlS3F }, n \in { e, e + 1 } }
        \cup { Entry(<< UrlHttpG >>, hexdigest(BytesG(1))), Entry(<< UrlFtpF >>, hexdigest(BytesF(e))) }

\* Partial files a run may find: none, a prefix of f of any length, or bytes
\* that are no prefix of f.
StartPartials ==
    { NoFile, File(<< 2 >>) } \cup { File(BytesF(k)) : k \in 0..MaxSize }

AllUrls == { UrlHttpF, UrlHttpG, UrlS3F, UrlS3SB, UrlFtpF, UrlFaspF, UrlS3Demo }
AllTags == { S3Tag, HTTPTag, FTPTag, FASPTag }

\* Every order of one ftp, one s3 and one http candidate.
OneOfEach ==
    { l \in [1..3 -> { UrlFtpF, UrlS3F, UrlS3SB, UrlS3Demo, UrlHttpF, UrlHttpG }] :
        /\ \E i \in 1..3 : l[i] = UrlFtpF
        /\ \E i \in 1..3 : StartsWith(l[i], s3Scheme)
        /\ \E i \in 1..3 : StartsWith(l[i], httpScheme) }

SelectorLists == SeqsOf(AllUrls, 1, 2) \cup OneOfEach
SelectorPriorities ==
    { CSV(t) : t \in SeqsOf(AllTags, 0, 2) }
        \cup { CSV(<< S3Tag, HTTPTag, FTPTag >>), CSV(<< Lower(S3Tag), Lower(HTTPTag) >>) }

Fresh ==
    /\ final = [n \in Names |-> NoFile]
    /\ run = 1
    /\ idx = 1
    /\ pc = "entry"
    /\ url = EmptyStr
    /\ s3_conn = FALSE
    /\ file_name = EmptyStr
    /\ current_byte = 0
    /\ file_size = 0
    /\ res = NoRes
    /\ outcomes = << >>
    /\ requests = << >>
    /\ chunks = << >>
    /\ start_file = NoFile
    /\ sel = NoCall
    /\ final_before = final
    /\ failed = { }

\* Runs of the driver over manifests of one or two single-URL entries, for every true
\* size, endpoint state and starting partial file.
InitDriver ==
    /\ \E e \in 0..MaxSize :
        /\ store \in [hf : StreamCopiesOf(e), sf : CopiesOf(e), hg : { Endpoint(TRUE, 1, TRUE) }]
        /\ manifest \in UNION { [1..n -> DriverEntries(e)] : n \in ManifestLengths }
    /\ priorities = CSV(<< S3Tag, HTTPTag >>)
    /\ md = FALSE
    /\ \E p \in StartPartials : partial = [n \in Names |-> IF n = << "f" >> THEN p ELSE NoFile]
    /\ Fresh

\* Runs over one entry, for every candidate list and priority string.
InitSelector ==
    /\ store = [hf |-> Endpoint(TRUE, 1, TRUE), sf |-> Endpoint(TRUE, 1, TRUE),
                hg |-> Endpoint(TRUE, 1, TRUE)]
    /\ \E l \in SelectorLists : manifest = << Entry(l, hexdigest(BytesF(1))) >>
    /\ priorities \in SelectorPriorities
    /\ md \in BOOLEAN
    /\ partial = [n \in Names |-> NoFile]
    /\ Fresh

Init == InitDriver \/ InitSelector


\* Runs of the driver from a destination directory without partial files.
InitKill ==
    /\ InitDriver
    /\ partial = [n \in Names |-> NoFile]

\* ------------------------------------------------------------ the driver
Last(q) == q[Len(q)]

\* Line 31: the basename of the chosen URL names the destination.
Basename(u) == Last(Split(u, "/"))

\* Line 37.
IsS3(u) == StartsWith(Lower(u), << "s", "3" >>)

\* Line 39: lstrip takes a set of characters, not a prefix.
StripS3(u) == LStrip(u, { "s", "3", ":", "/" })

\* Ignores the partial file on disk.
PartialSizeZero(f) == 0

\* Lines 44-46.
PartialSize(f) == IF f.exists THEN Len(f.data) ELSE 0

\* The entry is over: the for loop moves on (line 21); the locals keep their
\* values until the next entry assigns them.
NextEntry(outcome) ==
    /\ outcomes' = Append(outcomes, outcome)
    /\ idx' = idx + 1
    /\ pc' = "entry"
    /\ UNCHANGED << url, s3_conn, file_name, current_byte, file_size, res >>

\* Records the failure and goes on to the next entry.
AbortContinues(outcome) ==
    /\ outcomes' = Append(outcomes, outcome)
    /\ idx' = idx + 1
    /\ pc' = "entry"
    /\ UNCHANGED << url, s3_conn, file_name, current_byte, file_size, res >>

\* An uncaught exception or sys.exit: the process ends where it is.
Abort(outcome) ==
    /\ outcomes' = Append(outcomes, outcome)
    /\ pc' = "aborted"
    /\ UNCHANGED << idx, url, s3_conn, file_name, current_byte, file_size, res >>

Chosen == get_prioritized_endpoint(manifest[idx].urls, priorities, md)

\* Line 23: the call and what it returned.
Call == [called |-> TRUE, urls |-> manifest[idx].urls, url |-> Chosen]

\* Lines 23-29: no URL of the entry matches a priority.
SkipNoUrl ==
    /\ pc = "entry"
    /\ idx <= Len(manifest)
    /\ Chosen = EmptyStr
    /\ NextEntry("no-url")
    /\ requests' = << >>
    /\ chunks' = << >>
    /\ start_file' = NoFile
    /\ sel' = Call
    /\ UNCHANGED << env, final, partial, run, final_before, failed >>

\* Lines 23-33: the destination file is present, nothing is done.
SkipPresent ==
    /\ pc = "entry"
    /\ idx <= Len(manifest)
    /\ Chosen # EmptyStr
    /\ final[Basename(Chosen)].exists
    /\ NextEntry("present")
    /\ requests' = << >>
    /\ chunks' = << >>
    /\ start_file' = NoFile
    /\ sel' = Call
    /\ UNCHANGED << env, final, partial, run, final_before, failed >>

\* Lines 23-49: the download of the entry begins.
BeginDownload ==
    /\ pc = "entry"
    /\ idx <= Len(manifest)
    /\ Chosen # EmptyStr
    /\ ~final[Basename(Chosen)].exists
    /\ file_name' = Basename(Chosen)
    /\ s3_conn' = IsS3(Chosen)
    /\ url' = IF IsS3(Chosen) THEN StripS3(Chosen) ELSE Chosen
    /\ current_byte' = PartialSize(partial[Basename(Chosen)])
    /\ pc' = "open"
    /\ requests' = << >>
    /\ chunks' = << >>
    /\ start_file' = partial[Basename(Chosen)]
    /\ sel' = Call
    /\ UNCHANGED << env, final, partial, run, idx, file_size, res, outcomes, final_before, failed >>

\* A server's answer to "Range: bytes=k-" on n bytes: 416 when k is at or past
\* the end, except that the whole of an empty file is served.
RangeSatisfiable(k, n) == k < n \/ k = 0

\* Lines 87-100: whether get_url_obj returns, raises or exits.
get_url_obj(st, u, s3, k) ==
    IF ~s3
    THEN IF HttpEndpoint(st, u).up /\ RangeSatisfiable(k, HttpEndpoint(st, u).size)
         THEN "ok" ELSE "raise"
    ELSE IF s3_get_key(st, u) = "key" THEN "ok"
         ELSE IF s3_get_key(st, u) = "none" THEN "exit"
         ELSE "raise"

HeadRequest == [kind |-> "head", ranged |-> FALSE, start |-> 0, closed |-> FALSE, end |-> 0]
GetRequest == [kind |-> "get", ranged |-> FALSE, start |-> 0, closed |-> FALSE, end |-> 0]
GetFrom(k) == [kind |-> "get", ranged |-> TRUE, start |-> k, closed |-> FALSE, end |-> 0]

\* Lines 48-51: the source is opened at the resume offset.
OpenSource ==
    /\ pc = "open"
    /\ get_url_obj(store, url, s3_conn, current_byte) = "ok"
    /\ res' = IF s3_conn THEN [body |-> BytesF(store.sf.size)]
              ELSE [body |-> Drop(HttpBytes(store, url), current_byte)]
    /\ requests' = Append(requests, IF s3_conn THEN HeadRequest ELSE GetFrom(current_byte))
    /\ pc' = "size"
    /\ UNCHANGED << env, final, partial, run, idx, url, s3_conn, file_name, current_byte,
                    file_size, outcomes, chunks, start_file, sel, final_before, failed >>

\* Lines 51, 94, 100: the source cannot be opened; the process ends.
OpenFails ==
    /\ pc = "open"
    /\ get_url_obj(store, url, s3_conn, current_byte) # "ok"
    /\ Abort(get_url_obj(store, url, s3_conn, current_byte))
    /\ requests' = Append(requests, IF s3_conn THEN HeadRequest ELSE GetFrom(current_byte))
    /\ UNCHANGED << env, final, partial, run, chunks, start_file, sel, final_before, failed >>

\* Opens for writing from the start, as mode 'wb' does.
OpenTruncate(f) == File(<< >>)

\* Line 53: open(tmp_file_name, 'ab') creates the file when it is absent and
\* keeps its bytes when it is present.
OpenAppend(f) == IF f.exists THEN f ELSE File(<< >>)

\* Takes a missing Content-Length for a size of 0.
get_file_size_default0(st, u, s3) ==
    IF ~s3
    THEN [raises |-> FALSE,
          size |-> IF HttpEndpoint(st, u).has_len THEN HttpEndpoint(st, u).size ELSE 0]
    ELSE [raises |-> FALSE, size |-> st.sf.size]

\* Lines 106-111: the size; int(None) raises when the response has no
\* Content-Length header.
get_file_size(st, u, s3) ==
    IF ~s3
    THEN [raises |-> ~HttpEndpoint(st, u).has_len, size |-> HttpEndpoint(st, u).size]
    ELSE [raises |-> FALSE, size |-> st.sf.size]

\* Lines 53-59: the partial file is opened for append and the size is asked.
QuerySize ==
    /\ pc = "size"
    /\ ~get_file_size(store, url, s3_conn).raises
    /\ partial' = [partial EXCEPT ![file_name] = OpenAppend(@)]
    /\ file_size' = get_file_size(store, url, s3_conn).size
    /\ requests' = Append(requests, IF s3_conn THEN HeadRequest ELSE GetRequest)
    /\ pc' = "copy"
    /\ UNCHANGED << env, final, run, idx, url, s3_conn, file_name, current_byte, res,
                    outcomes, chunks, start_file, sel, final_before, failed >>

\* Lines 53-56: the size query raises inside the with block.
QuerySizeFails ==
    /\ pc = "size"
    /\ get_file_size(store, url, s3_conn).raises
    /\ partial' = [partial EXCEPT ![file_name] = OpenAppend(@)]
    /\ requests' = Append(requests, GetRequest)
    /\ Abort("raise")
    /\ UNCHANGED << env, final, run, chunks, start_file, sel, final_before, failed >>

\* Line 68: the block is appended.
WriteAppend(f, buffer) == File(f.data \o buffer)

\* Line 126: reading a block moves the response past it.
AfterRead(rs, s3, bs) == IF s3 THEN rs ELSE [body |-> Drop(rs.body, bs)]

\* Lines 63-74: one block is fetched, appended and counted; the percentage of
\* line 72 divides by file_size.
CopyBlock ==
    /\ pc = "copy"
    /\ get_buffer(res, s3_conn, block_sz, current_byte, file_size) # << >>
    /\ LET buffer == get_buffer(res, s3_conn, block_sz, current_byte, file_size)
       IN  /\ partial' = [partial EXCEPT ![file_name] = WriteAppend(@, buffer)]
           /\ current_byte' = current_byte + Len(buffer)
           /\ chunks' = Append(chunks, Len(buffer))
    /\ res' = AfterRead(res, s3_conn, block_sz)
    /\ requests' = requests \o get_buffer_requests(s3_conn, block_sz, current_byte, file_size)
    /\ IF file_size = 0
       THEN /\ pc' = "aborted"
            /\ outcomes' = Append(outcomes, "raise")
       ELSE /\ pc' = "copy"
            /\ outcomes' = outcomes
    /\ UNCHANGED << env, final, run, idx, url, s3_conn, file_name, file_size,
                    start_file, sel, final_before, failed >>

\* Lines 63-66: an empty block or None ends the loop.
CopyEnd ==
    /\ pc = "copy"
    /\ get_buffer(res, s3_conn, block_sz, current_byte, file_size) = << >>
    /\ chunks' = Append(chunks, 0)
    /\ requests' = requests \o get_buffer_requests(s3_conn, block_sz, current_byte, file_size)
    /\ pc' = "verify"
    /\ UNCHANGED << env, final, partial, run, idx, url, s3_conn, file_name, current_byte,
                    file_size, res, outcomes, start_file, sel, final_before, failed >>

\* Copies the partial file and leaves it in place.
MoveCopy(fs, ps, name) ==
    [final |-> [fs EXCEPT ![name] = ps[name]], partial |-> ps]

\* Line 78: shutil.move renames the partial file to the destination.
Move(fs, ps, name) ==
    [final |-> [fs EXCEPT ![name] = ps[name]], partial |-> [ps EXCEPT ![name] = NoFile]]

\* Lines 77-78: the checksum matches and the partial file is promoted.
Promote ==
    /\ pc = "verify"
    /\ checksum_matches(partial[file_name], manifest[idx].md5)
    /\ final' = Move(final, partial, file_name).final
    /\ partial' = Move(final, partial, file_name).partial
    /\ NextEntry("completed")
    /\ UNCHANGED << env, run, requests, chunks, start_file, sel, final_before, failed >>

\* Lines 79-80: the checksum does not match; the partial file stays.
ChecksumFailed ==
    /\ pc = "verify"
    /\ ~checksum_matches(partial[file_name], manifest[idx].md5)
    /\ NextEntry("checksum-failed")
    /\ UNCHANGED << env, final, partial, run, requests, chunks, start_file, sel, final_before >>
    /\ failed' = IF current_byte = file_size THEN failed \cup { << run, idx >> } ELSE failed

\* Line 21: the manifest is exhausted and download_manifest returns.
RunEnds ==
    /\ pc = "entry"
    /\ idx > Len(manifest)
    /\ pc' = "done"
    /\ UNCHANGED << env, final, partial, run, idx, locals, outcomes, requests, chunks,
                    start_file, sel, final_before, failed >>

\* The driver is run again over the same manifest and destination.
RunAgain ==
    /\ pc \in { "done", "aborted" }
    /\ run < MaxRuns
    /\ run' = run + 1
    /\ idx' = 1
    /\ pc' = "entry"
    /\ url' = EmptyStr
    /\ s3_conn' = FALSE
    /\ file_name' = EmptyStr
    /\ current_byte' = 0
    /\ file_size' = 0
    /\ res' = NoRes
    /\ outcomes' = << >>
    /\ requests' = << >>
    /\ chunks' = << >>
    /\ start_file' = NoFile
    /\ sel' = NoCall
    /\ final_before' = final
    /\ UNCHANGED failed
    /\ UNCHANGED << env, final, partial >>

Next ==
    \/ SkipNoUrl
    \/ SkipPresent
    \/ BeginDownload
    \/ OpenSource
    \/ OpenFails
    \/ QuerySize
    \/ QuerySizeFails
    \/ CopyBlock
    \/ CopyEnd
    \/ Promote
    \/ ChecksumFailed
    \/ RunEnds
    \/ RunAgain

Spec == Init /\ [][Next]_vars


\* ------------------------------------------------------------ the claims
\* The download of an entry is under way (lines 34-80).
Downloading == pc \in { "open", "size", "copy", "verify" }

\* The bytes the source of the current download serves.
SourceBytes == IF s3_conn THEN BytesF(store.sf.size) ELSE HttpBytes(store, url)

RECURSIVE Sum(_)
Sum(q) == IF Len(q) = 0 THEN 0 ELSE Head(q) + Sum(Tail(q))

C2_ChecksumGate ==
    [][(pc = "verify" /\ hexdigest(partial[file_name].data) # manifest[idx].md5) =>
            /\ outcomes' = Append(outcomes, "checksum-failed")
            /\ partial' = partial
            /\ partial'[file_name].exists
            /\ Len(partial'[file_name].data) = current_byte
            /\ final' = final
            /\ ~final'[file_name].exists]_vars

\* C2 witness: a download from scratch whose source bytes do not hash to the
\* expected checksum ended checksum-failed, its bytes still in the partial file.
C2_Witness ==
    /\ Len(outcomes) > 0
    /\ Last(outcomes) = "checksum-failed"
    /\ pc = "entry"
    /\ ~start_file.exists
    /\ Len(SourceBytes) > 0
    /\ partial[file_name] = File(SourceBytes)
    /\ ~final[file_name].exists


\* A download from an absent partial file, as the copy loop of lines 61-70
\* performs it: the bytes it appends.
RECURSIVE Drain(_, _, _, _, _)
Drain(rs, s3, cur, size, acc) ==
    LET buffer == get_buffer(rs, s3, block_sz, cur, size)
    IN  IF buffer = << >> THEN acc
        ELSE Drain(AfterRead(rs, s3, block_sz), s3, cur + Len(buffer), size, acc \o buffer)

OnePass(bytes, s3) == Drain([body |-> bytes], s3, 0, Len(bytes), << >>)

\* The download at hand began from a partial file holding exactly the first k
\* bytes of its source, 0 < k < N.
ResumeCase ==
    /\ start_file.exists
    /\ 0 < Len(start_file.data)
    /\ Len(start_file.data) < Len(SourceBytes)
    /\ start_file.data = Take(SourceBytes, Len(start_file.data))

Completed == pc = "entry" /\ Len(outcomes) > 0 /\ Last(outcomes) = "completed"

RequestSet == { requests[i] : i \in 1..Len(requests) }

\* C3 (as amended): resuming from the first k bytes of a source of N bytes,
\* every ranged request starts in [k, N) and names no end past N, the blocks
\* fetched are exactly the N - k bytes from k on, and the promoted file equals
\* the file of a one-pass download; the only request without a range is the
\* stream variant's size query.
C3_Resume ==
    ResumeCase =>
        /\ \A r \in RequestSet :
            /\ r.ranged => (Len(start_file.data) <= r.start /\ r.start < Len(SourceBytes))
            /\ (r.ranged /\ r.closed) => (r.start <= r.end /\ r.end <= Len(SourceBytes))
            /\ (r.kind = "get" /\ ~r.ranged) => ~s3_conn
        /\ Cardinality({ i \in 1..Len(requests) : requests[i] = GetRequest }) <= 1
        /\ pc = "verify" =>
            /\ Sum(chunks) = Len(SourceBytes) - Len(start_file.data)
            /\ partial[file_name] = File(SourceBytes)
        /\ Completed => final[file_name] = File(OnePass(SourceBytes, s3_conn))

\* C3 witness: an object-storage download resumed at k > 0 and was promoted.
C3_Witness ==
    /\ ResumeCase
    /\ Completed
    /\ s3_conn
    /\ Len(chunks) >= 2
    /\ final[file_name] = File(SourceBytes)

\* C3 (as stated): resuming at k, every request for bytes asks only for bytes
\* in [k, N), and the promoted file equals the file of a one-pass download.
C3_OnlyTail ==
    ResumeCase =>
        /\ \A r \in RequestSet :
            r.kind = "get" =>
                /\ r.ranged
                /\ Len(start_file.data) <= r.start
                /\ r.closed => r.end < Len(SourceBytes)
        /\ Completed => final[file_name] = File(OnePass(SourceBytes, s3_conn))

\* The outcomes after which the driver goes on to the next entry.
PerEntry == { "no-url", "present", "completed", "checksum-failed" }

\* The outcomes that end the process.
Fatal == { "raise", "exit" }

C5_BytesWithinSize ==
    pc \in { "copy", "verify" } => current_byte <= file_size


\* The first of the candidates whose scheme matches the tag, "" if none does.
RECURSIVE FirstMatching(_, _)
FirstMatching(urls, ep) ==
    IF Len(urls) = 0 THEN EmptyStr
    ELSE IF StartsWith(Head(urls), Lower(ep)) THEN Head(urls)
    ELSE FirstMatching(Tail(urls), ep)

\* Tag-major, URL-minor: the first candidate matching the earliest tag that
\* has a matching candidate, "" if no tag has one.
RECURSIVE TagMajorFirst(_, _)
TagMajorFirst(eps, urls) ==
    IF Len(eps) = 0 THEN EmptyStr
    ELSE IF FirstMatching(urls, Head(eps)) # EmptyStr THEN FirstMatching(urls, Head(eps))
    ELSE TagMajorFirst(Tail(eps), urls)

\* C6: get_prioritized_endpoint returns the first candidate, in the given
\* order, that matches the earliest priority tag with any matching candidate
\* (in the legacy layout, that candidate rewritten).
C6_FirstCandidate ==
    sel.called =>
        sel.url = DemoRewrite(TagMajorFirst(EffectiveEps(priorities, md), Split(sel.urls, ",")))

\* No candidate of the CSV matches any of the tags in force.
NoMatch(urls_csv) ==
    LET urls == Split(urls_csv, ",")
        eps == EffectiveEps(priorities, md)
    IN  \A i \in 1..Len(urls) : \A j \in 1..Len(eps) : ~StartsWith(urls[i], Lower(eps[j]))

\* C7: when no candidate of the entry matches any priority tag, the selector
\* returns no URL and the step records a skip, sends no request, leaves every
\* partial and destination file as it was, and moves to the next entry.
C7_NoMatchSkips ==
    [][(pc = "entry" /\ idx <= Len(manifest) /\ NoMatch(manifest[idx].urls)) =>
            /\ sel'.url = EmptyStr
            /\ outcomes' = Append(outcomes, "no-url")
            /\ requests' = << >>
            /\ partial' = partial
            /\ final' = final
            /\ idx' = idx + 1
            /\ pc' = "entry"]_vars

\* C7 witness: an entry was skipped for want of a URL and the next entry was
\* then downloaded.
C7_Witness ==
    /\ Len(outcomes) = 2
    /\ outcomes[1] = "no-url"
    /\ outcomes[2] = "completed"
    /\ NoMatch(manifest[1].urls)

\* C8: a second run over the same manifest and destination ends with the
\* destination files the first run left, and sends no request for an entry
\* whose destination file is present.
C8_Idempotent ==
    /\ (run >= 2 /\ pc \in { "done", "aborted" }) => final = final_before
    /\ (run >= 2 /\ pc = "entry" /\ Len(outcomes) > 0 /\ Last(outcomes) = "present") =>
            requests = << >>

\* The scheme prefix a tag stands for.
SchemeOf(tag) == Lower(tag) \o << ":", "/", "/" >>

\* The candidate of the list with this scheme (lists with one per scheme).
TheOne(urls, scheme) == CHOOSE u \in { urls[i] : i \in 1..Len(urls) } : StartsWith(u, scheme)

\* C9: with an empty priority string the result is a candidate of the first
\* scheme, in the order S3, HTTP, FTP, FASP with the cloud signal and HTTP,
\* FTP, S3, FASP without it, that any candidate has; and for one ftp, one s3
\* and one http candidate the result is the s3 one with the signal, the http
\* one without it, and the s3 one for the priorities "S3,HTTP,FTP".
C9_DefaultOrder ==
    sel.called =>
        LET urls == Split(sel.urls, ",")
            order == IF md THEN << S3Tag, HTTPTag, FTPTag, FASPTag >>
                     ELSE << HTTPTag, FTPTag, S3Tag, FASPTag >>
            has(t) == \E i \in 1..Len(urls) : StartsWith(urls[i], SchemeOf(t))
        IN  /\ priorities = EmptyStr =>
                \A j \in 1..4 :
                    (has(order[j]) /\ \A m \in 1..(j - 1) : ~has(order[m]))
                        => StartsWith(sel.url, SchemeOf(order[j]))
            /\ urls \in OneOfEach =>
                /\ (priorities = EmptyStr /\ md) => sel.url = DemoRewrite(TheOne(urls, s3Scheme))
                /\ (priorities = EmptyStr /\ ~md) => sel.url = TheOne(urls, httpScheme)
                /\ priorities = CSV(<< S3Tag, HTTPTag, FTPTag >>)
                        => sel.url = DemoRewrite(TheOne(urls, s3Scheme))

\* C9 witness: the candidates of the example under the empty priority string
\* with the cloud signal present.
C9_Witness ==
    /\ sel.called
    /\ sel.urls = CSV(<< UrlFtpF, UrlS3F, UrlHttpF >>)
    /\ priorities = EmptyStr
    /\ md
    /\ sel.url = UrlS3F

\* C10: a drain that started at offset 0 has, when the loop ends, returned
\* blocks whose lengths sum to the size the source reported, and the file
\* holds each byte of the source once, in order.
C10_ChunkedTotal ==
    (pc = "verify" /\ PartialSize(start_file) = 0) =>
        /\ Sum(chunks) = file_size
        /\ current_byte = file_size
        /\ partial[file_name] = File(SourceBytes)

\* C10 witness: a drain whose last block was shorter than the block size.
C10_Witness ==
    /\ pc = "verify"
    /\ PartialSize(start_file) = 0
    /\ Len(chunks) = 3
    /\ chunks[1] = block_sz
    /\ 0 < chunks[2]
    /\ chunks[2] < block_sz


\* ------------------------------------------- the driver process interrupted
\* The process is terminated inside the download of lines 41-80. Bytes written
\* at line 68 and still in the file object's buffer are lost, so the partial
\* file keeps what it held at line 53 and some prefix of the blocks appended;
\* once the with block of line 53 is left the file is closed and whole.
Kill ==
    /\ pc \in { "open", "size", "copy", "verify" }
    /\ run <= MaxKills
    /\ IF pc = "copy"
       THEN \E n \in PartialSize(start_file)..Len(partial[file_name].data) :
                partial' = [partial EXCEPT ![file_name] = File(Take(@.data, n))]
       ELSE partial' = partial
    /\ pc' = "killed"
    /\ UNCHANGED << env, final, run, idx, url, s3_conn, file_name, current_byte, file_size,
                    res, outcomes, requests, chunks, start_file, sel, final_before, failed >>

\* Lines 18-20: the driver is started again after an interruption.
Restart ==
    /\ pc = "killed"
    /\ run' = run + 1
    /\ idx' = 1
    /\ pc' = "entry"
    /\ url' = EmptyStr
    /\ s3_conn' = FALSE
    /\ file_name' = EmptyStr
    /\ current_byte' = 0
    /\ file_size' = 0
    /\ res' = NoRes
    /\ outcomes' = << >>
    /\ requests' = << >>
    /\ chunks' = << >>
    /\ start_file' = NoFile
    /\ sel' = NoCall
    /\ final_before' = final
    /\ UNCHANGED failed
    /\ UNCHANGED << env, final, partial >>

NextKill ==
    \/ Next
    \/ Kill
    \/ Restart

SpecKill == InitKill /\ [][NextKill]_vars

\* C11: the percentage of line 72 is computed only with file_size > 0: a block
\* is never returned while file_size is 0, a loop over a source of size 0 ends
\* on its first (empty) block, and no run ends inside the loop.
C11_NoZeroDivision ==
    /\ (pc = "copy" /\ get_buffer(res, s3_conn, block_sz, current_byte, file_size) # << >>)
            => file_size > 0
    /\ (pc \in { "copy", "verify" } /\ file_size = 0) => Sum(chunks) = 0
    /\ (pc = "verify" /\ file_size = 0) => chunks = << 0 >>
    /\ pc = "aborted" => chunks = << >>

\* C11 witness: the loop over a stream source of size 0 ended on its first block.
C11_Witness ==
    /\ pc = "verify"
    /\ ~s3_conn
    /\ file_size = 0
    /\ chunks = << 0 >>


\* The URL chosen for entry i and the bytes its source serves.
EntryUrl(i) == get_prioritized_endpoint(manifest[i].urls, priorities, md)

EntryBytes(i) ==
    IF IsS3(EntryUrl(i)) THEN BytesF(store.sf.size) ELSE HttpBytes(store, EntryUrl(i))

\* Entry i has a source that is up, states its size and matches the entry's md5.
EntryGood(i) ==
    /\ EntryUrl(i) \in { UrlHttpF, UrlHttpG, UrlS3F }
    /\ IF IsS3(EntryUrl(i))
       THEN store.sf.up
       ELSE HttpEndpoint(store, EntryUrl(i)).up /\ HttpEndpoint(store, EntryUrl(i)).has_len
    /\ manifest[i].md5 = hexdigest(EntryBytes(i))

IsPrefix(p, q) == Len(p) <= Len(q) /\ p = Take(q, Len(p))

\* C12: a manifest of one entry whose source matches its md5, started without
\* a partial file and interrupted any number of times inside the download:
\* after each interruption the partial file is a prefix of the source, each
\* re-run resumes from the partial file's size, and a run that is not
\* interrupted ends with the destination equal to the source and no partial file.
C12_ResumeAfterKill ==
    (Len(manifest) = 1 /\ EntryGood(1)) =>
        LET name == Basename(EntryUrl(1))
        IN  /\ (pc = "killed" /\ partial[name].exists)
                    => IsPrefix(partial[name].data, EntryBytes(1))
            /\ pc \in { "copy", "verify" }
                    => current_byte = PartialSize(start_file) + Sum(chunks)
            /\ pc \in { "done", "aborted" }
                    => final[name] = File(EntryBytes(1)) /\ ~partial[name].exists


\* The block requests of the current download, in order.
BlockRequests == SelectSeq(requests, LAMBDA r : r.kind = "get")

\* The start_pos of the i-th get_buffer call of the current download.
StartOf(i) == PartialSize(start_file) + Sum(SubSeq(chunks, 1, i - 1))

\* The get_buffer calls of the current download made with start_pos < size.
CallsInside == { i \in 1..Len(chunks) : StartOf(i) < file_size }

\* C13 (as amended): with object storage, every get_buffer call with
\* start_pos < size issues exactly one byte-range request that starts at
\* start_pos; it names the end start_pos + block_sz - 1 when that is at most
\* size, and is open-ended ('bytes=start_pos-') otherwise; every call with
\* start_pos >= size returns none and issues no request.
C13_RangePerCall ==
    (s3_conn /\ pc \in { "copy", "verify" }) =>
        /\ Len(BlockRequests) = Cardinality(CallsInside)
        /\ \A j \in 1..Len(BlockRequests) :
            /\ j \in CallsInside
            /\ BlockRequests[j].ranged
            /\ BlockRequests[j].start = StartOf(j)
            /\ BlockRequests[j].closed <=> StartOf(j) + block_sz - 1 <= file_size
            /\ BlockRequests[j].closed => BlockRequests[j].end = StartOf(j) + block_sz - 1
        /\ \A i \in 1..Len(chunks) : i \notin CallsInside => chunks[i] = 0

\* C13 witness: a finished object-storage download whose last block was asked
\* for with an open-ended range after a block asked for with a closed one.
C13_Witness ==
    /\ s3_conn
    /\ pc = "verify"
    /\ Len(BlockRequests) = 2
    /\ BlockRequests[1].closed
    /\ ~BlockRequests[2].closed
    /\ Last(chunks) = 0

\* C13 as stated: every block request names both its start and its end.
C13_ClosedRanges ==
    (s3_conn /\ pc \in { "copy", "verify" }) =>
        /\ Len(BlockRequests) = Cardinality(CallsInside)
        /\ \A j \in 1..Len(BlockRequests) :
            /\ BlockRequests[j].ranged
            /\ BlockRequests[j].closed
            /\ BlockRequests[j].start = StartOf(j)
            /\ BlockRequests[j].start <= BlockRequests[j].end


\* C14: at every iteration boundary of the copy loop current_byte is the
\* partial file's size at the start of the download plus the lengths of the
\* blocks appended, and is the size of the partial file; the bytes the partial
\* file held at the start are still its prefix.
C14_CursorInvariant ==
    pc \in { "copy", "verify" } =>
        /\ current_byte = PartialSize(start_file) + Sum(chunks)
        /\ partial[file_name].exists
        /\ Len(partial[file_name].data) = current_byte
        /\ IsPrefix(start_file.data, partial[file_name].data)

\* C14 witness: a loop that appended a block to a non-empty partial file has ended.
C14_Witness ==
    /\ pc = "verify"
    /\ start_file.exists
    /\ Len(start_file.data) >= 1
    /\ Sum(chunks) >= 1
    /\ Len(partial[file_name].data) = Len(start_file.data) + Sum(chunks)


\* The entries that ended checksum-failed in an earlier run, the partial file
\* then as long as the source.
FailedEarlier == { i \in 1..Len(manifest) : \E r \in 1..(run - 1) : << r, i >> \in failed }

\* C15: the download of an entry that ended checksum-failed in an earlier run,
\* begun with the partial file as long as the source, fetches no byte, leaves
\* the partial file as it is and does not end the run with an error.
C15_RetryReverifies ==
    ( /\ pc \in { "open", "size", "copy", "verify", "aborted" }
      /\ idx \in FailedEarlier
      /\ start_file.exists
      /\ Len(start_file.data) = Len(SourceBytes) ) =>
        /\ pc # "aborted"
        /\ Sum(chunks) = 0
        /\ partial[file_name] = start_file


CeilDiv(a, b) == (a + b - 1) \div b

\* The get_buffer calls a loop over file_size bytes begun at the partial
\* file's size may make: one per block of the bytes missing, and the last one.
CallBound ==
    LET missing == file_size - PartialSize(start_file)
    IN  CeilDiv(IF missing > 0 THEN missing ELSE 0, block_sz) + 1

\* C16: the copy loop ends: in either variant it has made fewer than
\* ceil(max(N - k, 0) / block_sz) + 1 get_buffer calls while it runs and at most
\* that many when it has ended, N the source's size and k the partial file's
\* size at the start.
C16_LoopTerminates ==
    /\ pc = "copy" => Len(chunks) < CallBound
    /\ pc = "verify" => Len(chunks) <= CallBound /\ Last(chunks) = 0

\* C16 witness: an object-storage loop ended with its third call, after two blocks.
C16_Witness ==
    /\ pc = "verify"
    /\ s3_conn
    /\ Len(chunks) = 3
    /\ Len(chunks) = CallBound
    /\ chunks[1] > 0 /\ chunks[2] > 0


C18_RangesInside ==
    (s3_conn /\ pc \in { "copy", "verify" }) =>
        \A j \in 1..Len(BlockRequests) :
            BlockRequests[j].closed =>
                /\ 0 <= BlockRequests[j].start
                /\ BlockRequests[j].start <= BlockRequests[j].end
                /\ BlockRequests[j].end <= file_size - 1


\* C19: an entry that ended checksum-failed in an earlier run, its partial file
\* as long as its source, is not completed by any later run over the manifest.
C19_FailedStaysFailed ==
    \A i \in 1..Len(outcomes) : i \in FailedEarlier => outcomes[i] # "completed"

====
